---- MODULE Spec2Model ----
(***************************************************************************)
(* The buffered GameLetters screen (src/screens/GameLetters.tsx:33-280):   *)
(* a React component that keeps a queue of prepared quiz questions topped  *)
(* up by the asynchronous, self-rescheduling fillBuffer loop.              *)
(*                                                                         *)
(* One action is one run of JavaScript between two suspension points       *)
(* (an event handler, an effect, an await resumption or a timer callback). *)
(* State updates made by such a run are committed before the next one.     *)
(* An invocation of fillBuffer is a closure of the render that created it: *)
(* it keeps that render's `level` prop and `currentQ` state for its whole  *)
(* life, including every setTimeout(fillBuffer, 100) it chains.            *)
(* The parent is any component that honours Props: it may change `level`   *)
(* at any time and it records onComplete(true).                            *)
(***************************************************************************)
EXTENDS Integers, Sequences, FiniteSets, TLC

\* ---------------------------------------------------------------- bounds
MaxInFlight == 2    \* fillBuffer invocations alive at the same time
MaxItems == 2       \* questions the Content Source produces in one run
MaxFill == 6        \* the same, in the specification of the refill burst
MaxWords == 1       \* distinct correct-answer words
NumOptions == 2     \* options (and images) of one question
MaxTimers == 2      \* feedback timers pending at the same time
MaxEndless == 3     \* questions generated in the endless-mode specification
MaxPops == 1        \* correct answers given in the top-up specification
MaxFetch == 1       \* prefetch variant: pending calls per function and level
MaxArmed == 2       \* App: completion timers pending at the same time
MaxWins == 3        \* App: successful completions

\* ------------------------------------------------------ program constants
BUFFER_TARGET == 4
maxLevels == 3      \* GAME_CONFIG[GameType.LETTERS].maxLevels
TargetCorrect == 1  \* onComplete(true) follows the first correct answer
maxLevelsNikkud == 4  \* GAME_CONFIG[GameType.NIKKUD].maxLevels
CoinsPerWin == 10   \* coins: prev.coins + 10

Levels == 1..maxLevels
Slots == 1..MaxInFlight
Options == 1..NumOptions
NoWord == 0         \* no option is flagged isCorrect: correctWord is undefined
NoSel == 0          \* selected === null

VARIABLES
  level,          \* the `level` prop of the latest render
  currentQ,       \* useState: the question on screen, or Null
  selected,       \* useState: index of the chosen option, or NoSel
  error,          \* useState: the error screen is shown
  bufferRef,      \* useRef: the Ready Queue
  usedWordsRef,   \* useRef: the exclusion set
  isFetchingRef,  \* useRef: the fetch flag
  activeLevelRef, \* useRef: level of the active session
  calls,          \* the fillBuffer invocations, by slot; `live` records that
                  \* the pending request was issued after the latest reset
  timers,         \* pending handleSelect timers, by kind
  nextId,         \* number of the next generated question
  correctCount,   \* correct answers given in the active session
  completeCount,  \* onComplete(true) deliveries in the active session
  lastExcl,       \* exclusion list of the latest Content Source request
  \* The single-slot prefetch variant of the component (lines 283-531); it
  \* shares `level` and `error` with the variables above.
  data,              \* useState: level the loaded question was generated for, 0 = null
  loadingData,       \* useState
  imagesLoadedCount, \* useState
  nextLevelDataRef,  \* useRef: level the prefetched question was generated for, 0 = null
  fetches,           \* pending generateLetterQuestion calls, by caller and level argument
  \* GameNikkud and GameSentences (src/unnamed/part_001, GameSentences.tsx):
  \* they have `level`, `data`, `loadingData`, the pending loadLevel calls
  \* and the feedback timers in the variables above, and
  imageReady,        \* useState
  completed,         \* useState
  imgPending,        \* the <img> of `data` has fired neither load nor error
  \* App (src/services/geminiService.ts:142-237)
  screen,            \* useState: "MAP" or "GAME"
  activeGame,        \* useState: the game on screen, or NoGame
  activeLevel,       \* useState
  progress,          \* useState: coins and unlockedLevels of UserProgress
  armed              \* closures of handleGameComplete held by pending timers

bufferVars == <<currentQ, selected, bufferRef, usedWordsRef, isFetchingRef,
                activeLevelRef, calls, timers, nextId, correctCount,
                completeCount, lastExcl>>
prefetchVars == <<data, loadingData, imagesLoadedCount, nextLevelDataRef, fetches>>
loaderVars == <<imageReady, completed, imgPending>>
appVars == <<screen, activeGame, activeLevel, progress, armed>>

vars == <<level, currentQ, selected, error, bufferRef, usedWordsRef,
          isFetchingRef, activeLevelRef, calls, timers, nextId,
          correctCount, completeCount, lastExcl, data, loadingData,
          imagesLoadedCount, nextLevelDataRef, fetches, imageReady,
          completed, imgPending, screen, activeGame, activeLevel, progress,
          armed>>

\* ------------------------------------------------------------------ data
NoMedia == [o \in Options |-> "none"]
PendingMedia == [o \in Options |-> "pending"]

\* currentQ === null, and the `q` of an invocation that holds no question
Null == [id |-> 0, word |-> NoWord, media |-> NoMedia, live |-> FALSE]

\* A slot without an invocation
Idle == [pc |-> "idle", lvl |-> 0, capQ |-> FALSE, live |-> FALSE, q |-> Null]

\* preloadImage: the promise is settled once the image loaded or failed
SettledOnLoad(m) == m = "loaded"
Settled(m) == m \in {"loaded", "failed"}

\* Promise.all(imagePromises): resolved once every promise is
GateOpenAny(media) == \E o \in Options : Settled(media[o])
GateOpen(media) == \A o \in Options : Settled(media[o])

\* The guard of fillBuffer: enough items, or already fetching
BlockedByLength(buf, fetching) == Len(buf) >= BUFFER_TARGET
Blocked(buf, fetching) == Len(buf) >= BUFFER_TARGET \/ fetching

\* The finally block's test for chaining setTimeout(fillBuffer, 100)
ChainsNever(buf, lvl) == FALSE
Chains(buf, lvl) == Len(buf) < BUFFER_TARGET /\ activeLevelRef = lvl

FreeSlots == {s \in Slots : calls[s].pc = "idle"}
FirstFree == CHOOSE s \in FreeSlots : \A t \in FreeSlots : s <= t

\* A new invocation, suspended in generateLetterQuestion
Requested(lvl, capQ) ==
  [pc |-> "gen", lvl |-> lvl, capQ |-> capQ, live |-> TRUE, q |-> Null]

\* Lines 98-101: the correct word joins the exclusion set
AddWordNever(used, w) == used
AddWord(used, w) == IF w = NoWord THEN used ELSE used \cup {w}

\* Lines 115-127: push, then the setCurrentQ updater shifts when the UI is empty
PushOnly(buf, cur, item) == [cur |-> cur, buf |-> Append(buf, item)]
PushServeKeeps(buf, cur, item) ==
  LET pushed == Append(buf, item)
  IN  [cur |-> IF cur = Null THEN Head(pushed) ELSE cur, buf |-> pushed]
PushServe(buf, cur, item) ==
  LET pushed == Append(buf, item)
  IN  IF cur = Null
        THEN [cur |-> Head(pushed), buf |-> Tail(pushed)]
        ELSE [cur |-> cur, buf |-> pushed]

\* Line 133: the catch block's test, on the closure's currentQ
ShowsErrorNever(buf, capQ) == FALSE
ShowsError(buf, capQ) == Len(buf) = 0 /\ ~capQ

TimerCount == timers.unlock + timers.praise + timers.done

\* The callers of generateLetterQuestion in the prefetch variant
Callers == {"loadLevel", "prefetchNextLevel"}
NoFetches == [c \in Callers |-> [l \in Levels |-> 0]]
\* The prefetch variant is not the component in use
PrefetchUnused ==
  /\ data = 0
  /\ loadingData = FALSE
  /\ imagesLoadedCount = 0
  /\ nextLevelDataRef = 0
  /\ fetches = NoFetches

\* GameNikkud and GameSentences are not the component in use
LoaderUnused ==
  /\ imageReady = FALSE
  /\ completed = FALSE
  /\ imgPending = FALSE

\* GameType (src/types.ts) and the state of App before any game is chosen
\* (src/services/geminiService.ts:132-149)
Games == {"LETTERS", "NIKKUD", "SENTENCES"}
NoGame == "none"
NoBadges == {}
INITIAL_PROGRESS ==
  [coins |-> 0, badges |-> NoBadges, unlockedLevels |-> [g \in Games |-> 1]]
AppUnused ==
  /\ screen = "MAP"
  /\ activeGame = NoGame
  /\ activeLevel = 1
  /\ progress = INITIAL_PROGRESS
  /\ armed = {}

\* ------------------------------------------------------------------ Init
\* After the first render and its effect (lines 51-64): the mount effect has
\* reset the refs and called fillBuffer, which is awaiting the first question.
Init ==
  /\ level \in Levels
  /\ activeLevelRef = level
  /\ currentQ = Null
  /\ selected = NoSel
  /\ error = FALSE
  /\ bufferRef = <<>>
  /\ usedWordsRef = {}
  /\ isFetchingRef = TRUE
  /\ calls = [s \in Slots |-> IF s = 1 THEN Requested(level, FALSE) ELSE Idle]
  /\ timers = [unlock |-> 0, praise |-> 0, done |-> 0]
  /\ nextId = 1
  /\ correctCount = 0
  /\ completeCount = 0
  /\ lastExcl = {}
  /\ PrefetchUnused
  /\ LoaderUnused
  /\ AppUnused

\* --------------------------------------------------------------- actions
\* The parent renders a new level; the effect of lines 51-64 runs and calls
\* the fillBuffer of that render, whose closure sees the currentQ of before
\* the reset.
LevelChangeKeepsFlag(l) ==
  /\ l # level
  /\ FreeSlots # {}
  /\ level' = l
  /\ activeLevelRef' = l
  /\ bufferRef' = <<>>
  /\ usedWordsRef' = {}
  /\ currentQ' = Null
  /\ selected' = NoSel
  /\ error' = FALSE
  /\ isFetchingRef' = TRUE
  /\ calls' = [s \in Slots |->
                 IF s = FirstFree /\ ~isFetchingRef
                   THEN Requested(l, currentQ # Null)
                 ELSE IF calls[s].pc = "idle" THEN Idle
                 ELSE [calls[s] EXCEPT !.live = FALSE]]
  /\ correctCount' = 0
  /\ completeCount' = 0
  /\ lastExcl' = {}
  /\ UNCHANGED <<timers, nextId>>
  /\ UNCHANGED <<prefetchVars, loaderVars, appVars>>

LevelChange(l) ==
  /\ l # level
  /\ FreeSlots # {}
  /\ level' = l
  /\ activeLevelRef' = l
  /\ bufferRef' = <<>>
  /\ usedWordsRef' = {}
  /\ currentQ' = Null
  /\ selected' = NoSel
  /\ error' = FALSE
  /\ isFetchingRef' = TRUE
  /\ calls' = [s \in Slots |->
                 IF s = FirstFree THEN Requested(l, currentQ # Null)
                 ELSE IF calls[s].pc = "idle" THEN Idle
                 ELSE [calls[s] EXCEPT !.live = FALSE]]
  /\ correctCount' = 0
  /\ completeCount' = 0
  /\ lastExcl' = {}
  /\ UNCHANGED <<timers, nextId>>
  /\ UNCHANGED <<prefetchVars, loaderVars, appVars>>

\* generateLetterQuestion resolves with a question whose correct word is w
\* (lines 88-108). A stale invocation clears the flag and returns.
GenResolve(s, w, cap) ==
  /\ calls[s].pc = "gen"
  /\ IF activeLevelRef # calls[s].lvl
       THEN /\ isFetchingRef' = FALSE
            /\ calls' = [calls EXCEPT ![s] = Idle]
            /\ UNCHANGED <<usedWordsRef, nextId>>
       ELSE /\ nextId <= cap
            /\ usedWordsRef' = AddWord(usedWordsRef, w)
            /\ calls' = [calls EXCEPT ![s].pc = "img",
                           ![s].q = [id |-> nextId, word |-> w,
                                     media |-> PendingMedia, live |-> FALSE]]
            /\ nextId' = nextId + 1
            /\ UNCHANGED isFetchingRef
  /\ UNCHANGED <<level, currentQ, selected, error, bufferRef, activeLevelRef,
                 timers, correctCount, completeCount, lastExcl>>
  /\ UNCHANGED <<prefetchVars, loaderVars, appVars>>

GenSucceed(s, w) == GenResolve(s, w, MaxItems)

\* One image of the question being preloaded loads or fails (lines 19-26)
MediaSettle(s, o, outcome) ==
  /\ calls[s].pc = "img"
  /\ calls[s].q.media[o] = "pending"
  /\ calls' = [calls EXCEPT ![s].q.media[o] = outcome]
  /\ UNCHANGED <<level, currentQ, selected, error, bufferRef, usedWordsRef,
                 isFetchingRef, activeLevelRef, timers, nextId, correctCount,
                 completeCount, lastExcl>>
  /\ UNCHANGED <<prefetchVars, loaderVars, appVars>>

\* Promise.all resolves: lines 113-127, then the finally block
GateResolveClearsError(s) ==
  /\ calls[s].pc = "img"
  /\ GateOpen(calls[s].q.media)
  /\ LET item == [calls[s].q EXCEPT !.live = calls[s].live]
         r == PushServe(bufferRef, currentQ, item)
     IN  /\ bufferRef' = r.buf
         /\ currentQ' = r.cur
         /\ calls' = [calls EXCEPT ![s] =
                        IF Chains(r.buf, calls[s].lvl)
                          THEN [calls[s] EXCEPT !.pc = "timer", !.q = Null,
                                                !.live = FALSE]
                          ELSE Idle]
  /\ isFetchingRef' = FALSE
  /\ error' = FALSE
  /\ UNCHANGED <<level, selected, usedWordsRef, activeLevelRef, timers,
                 nextId, correctCount, completeCount, lastExcl>>
  /\ UNCHANGED <<prefetchVars, loaderVars, appVars>>

GateResolve(s) ==
  /\ calls[s].pc = "img"
  /\ GateOpen(calls[s].q.media)
  /\ LET item == [calls[s].q EXCEPT !.live = calls[s].live]
         r == PushServe(bufferRef, currentQ, item)
     IN  /\ bufferRef' = r.buf
         /\ currentQ' = r.cur
         /\ calls' = [calls EXCEPT ![s] =
                        IF Chains(r.buf, calls[s].lvl)
                          THEN [calls[s] EXCEPT !.pc = "timer", !.q = Null,
                                                !.live = FALSE]
                          ELSE Idle]
  /\ isFetchingRef' = FALSE
  /\ UNCHANGED <<level, selected, error, usedWordsRef, activeLevelRef, timers,
                 nextId, correctCount, completeCount, lastExcl>>
  /\ UNCHANGED <<prefetchVars, loaderVars, appVars>>

\* generateLetterQuestion rejects: the catch and finally blocks (lines 129-143)
GenFail(s) ==
  /\ calls[s].pc = "gen"
  /\ error' = (error \/ ShowsError(bufferRef, calls[s].capQ))
  /\ isFetchingRef' = FALSE
  /\ calls' = [calls EXCEPT ![s] =
                 IF Chains(bufferRef, calls[s].lvl)
                   THEN [calls[s] EXCEPT !.pc = "timer", !.live = FALSE]
                   ELSE Idle]
  /\ UNCHANGED <<level, currentQ, selected, bufferRef, usedWordsRef,
                 activeLevelRef, timers, nextId, correctCount, completeCount,
                 lastExcl>>
  /\ UNCHANGED <<prefetchVars, loaderVars, appVars>>

\* The 100 ms timer of the finally block calls fillBuffer again (lines 75-88)
TimerFire(s) ==
  /\ calls[s].pc = "timer"
  /\ IF Blocked(bufferRef, isFetchingRef)
       THEN /\ calls' = [calls EXCEPT ![s] = Idle]
            /\ UNCHANGED <<isFetchingRef, lastExcl>>
       ELSE /\ calls' = [calls EXCEPT ![s].pc = "gen", ![s].live = TRUE]
            /\ isFetchingRef' = TRUE
            /\ lastExcl' = usedWordsRef
  /\ UNCHANGED <<level, currentQ, selected, error, bufferRef, usedWordsRef,
                 activeLevelRef, timers, nextId, correctCount, completeCount>>
  /\ UNCHANGED <<prefetchVars, loaderVars, appVars>>

\* The retry button of the error screen (lines 202-205, 209-219)
handleRetryRestarts ==
  /\ error
  /\ error' = FALSE
  /\ usedWordsRef' = {}
  /\ IF Blocked(bufferRef, isFetchingRef)
       THEN UNCHANGED <<calls, isFetchingRef, lastExcl>>
       ELSE /\ FreeSlots # {}
            /\ calls' = [calls EXCEPT ![FirstFree] = Requested(level, currentQ # Null)]
            /\ isFetchingRef' = TRUE
            /\ lastExcl' = {}
  /\ UNCHANGED <<level, currentQ, selected, bufferRef, activeLevelRef, timers,
                 nextId, correctCount, completeCount>>
  /\ UNCHANGED <<prefetchVars, loaderVars, appVars>>

handleRetry ==
  /\ error
  /\ error' = FALSE
  /\ IF Blocked(bufferRef, isFetchingRef)
       THEN UNCHANGED <<calls, isFetchingRef, lastExcl>>
       ELSE /\ FreeSlots # {}
            /\ calls' = [calls EXCEPT ![FirstFree] = Requested(level, currentQ # Null)]
            /\ isFetchingRef' = TRUE
            /\ lastExcl' = usedWordsRef
  /\ UNCHANGED <<level, currentQ, selected, bufferRef, usedWordsRef,
                 activeLevelRef, timers, nextId, correctCount, completeCount>>
  /\ UNCHANGED <<prefetchVars, loaderVars, appVars>>

\* options[index].isCorrect: the flagged option, when there is one, is the first
IsCorrect(q, index) == q.word # NoWord /\ index = 1

\* A click on option `index` of the displayed question (lines 161-200). The
\* options are on screen only when there is a question and no error screen.
handleSelectAdvances(index) ==
  /\ ~error
  /\ currentQ # Null
  /\ selected = NoSel
  /\ TimerCount < MaxTimers
  /\ selected' = index
  /\ IF IsCorrect(currentQ, index)
       THEN /\ timers' = [timers EXCEPT !.praise = @ + 1]
            /\ correctCount' = correctCount + 1
            /\ UNCHANGED <<currentQ, bufferRef>>
       ELSE /\ timers' = [timers EXCEPT !.unlock = @ + 1]
            /\ currentQ' = IF bufferRef = <<>> THEN Null ELSE Head(bufferRef)
            /\ bufferRef' = IF bufferRef = <<>> THEN <<>> ELSE Tail(bufferRef)
            /\ UNCHANGED correctCount
  /\ UNCHANGED <<level, error, usedWordsRef, isFetchingRef, activeLevelRef,
                 calls, nextId, completeCount, lastExcl>>
  /\ UNCHANGED <<prefetchVars, loaderVars, appVars>>

handleSelect(index) ==
  /\ ~error
  /\ currentQ # Null
  /\ IF selected # NoSel
       THEN UNCHANGED <<selected, timers, correctCount>>
       ELSE /\ TimerCount < MaxTimers
            /\ selected' = index
            /\ IF IsCorrect(currentQ, index)
                 THEN /\ timers' = [timers EXCEPT !.praise = @ + 1]
                      /\ correctCount' = correctCount + 1
                 ELSE /\ timers' = [timers EXCEPT !.unlock = @ + 1]
                      /\ UNCHANGED correctCount
  /\ UNCHANGED <<level, currentQ, error, bufferRef, usedWordsRef, isFetchingRef,
                 activeLevelRef, calls, nextId, completeCount, lastExcl>>
  /\ UNCHANGED <<prefetchVars, loaderVars, appVars>>

\* The 1000 ms timer of a wrong answer (lines 195-198)
UnlockTimer ==
  /\ timers.unlock > 0
  /\ timers' = [timers EXCEPT !.unlock = @ - 1]
  /\ selected' = NoSel
  /\ UNCHANGED <<level, currentQ, error, bufferRef, usedWordsRef, isFetchingRef,
                 activeLevelRef, calls, nextId, correctCount, completeCount,
                 lastExcl>>
  /\ UNCHANGED <<prefetchVars, loaderVars, appVars>>

\* The first 500 ms timer of a correct answer (lines 171-192) arms the second
PraiseTimer ==
  /\ timers.praise > 0
  /\ timers' = [timers EXCEPT !.praise = @ - 1, !.done = @ + 1]
  /\ UNCHANGED <<level, currentQ, selected, error, bufferRef, usedWordsRef,
                 isFetchingRef, activeLevelRef, calls, nextId, correctCount,
                 completeCount, lastExcl>>
  /\ UNCHANGED <<prefetchVars, loaderVars, appVars>>

\* The second 500 ms timer calls onComplete(true) (line 188)
CompleteTimer ==
  /\ timers.done > 0
  /\ timers' = [timers EXCEPT !.done = @ - 1]
  /\ completeCount' = completeCount + 1
  /\ UNCHANGED <<level, currentQ, selected, error, bufferRef, usedWordsRef,
                 isFetchingRef, activeLevelRef, calls, nextId, correctCount,
                 lastExcl>>
  /\ UNCHANGED <<prefetchVars, loaderVars, appVars>>

Next ==
  \/ \E l \in Levels : LevelChange(l)
  \/ \E s \in Slots, w \in 0..MaxWords : GenSucceed(s, w)
  \/ \E s \in Slots, o \in Options, m \in {"loaded", "failed"} : MediaSettle(s, o, m)
  \/ \E s \in Slots : GateResolve(s)
  \/ \E s \in Slots : GenFail(s)
  \/ \E s \in Slots : TimerFire(s)
  \/ handleRetry
  \/ \E i \in Options : handleSelect(i)
  \/ UnlockTimer
  \/ PraiseTimer
  \/ CompleteTimer

Spec == Init /\ [][Next]_vars

\* A refill burst: every request may succeed, every image loads, nobody answers
NextBurst ==
  \/ \E l \in Levels : LevelChange(l)
  \/ \E s \in Slots : GenResolve(s, 1, MaxFill)
  \/ \E s \in Slots, o \in Options : MediaSettle(s, o, "loaded")
  \/ \E s \in Slots : GateResolve(s)
  \/ \E s \in Slots : GenFail(s)
  \/ \E s \in Slots : TimerFire(s)
  \/ handleRetry

SpecBurst == Init /\ [][NextBurst]_vars

\* A Content Source that fails on every call. Every request is answered (with
\* a rejection) and every armed timer fires.
NextFail ==
  \/ \E l \in Levels : LevelChange(l)
  \/ \E s \in Slots : GenFail(s)
  \/ \E s \in Slots : TimerFire(s)
  \/ handleRetry

SpecFail ==
  /\ Init
  /\ [][NextFail]_vars
  /\ WF_vars(\E s \in Slots : GenFail(s))
  /\ WF_vars(\E s \in Slots : TimerFire(s))

\* Endless mode, the variant of the NOTE at lines 190-191: the second timer
\* of a correct answer calls loadNextQuestion() in place of onComplete(true).
\* The parent is App.tsx's: it never changes the level of a mounted game, so
\* the closure that calls loadNextQuestion has the current level and a
\* non-null currentQ (the guard of handleSelect).
loadNextQuestionLifo ==
  LET n == Len(bufferRef)
      rest == IF n = 0 THEN <<>> ELSE SubSeq(bufferRef, 1, n - 1)
  IN  /\ IF n > 0
           THEN currentQ' = bufferRef[n] /\ selected' = NoSel
           ELSE currentQ' = Null /\ UNCHANGED selected
      /\ bufferRef' = rest
      /\ IF Blocked(rest, isFetchingRef)
           THEN UNCHANGED <<calls, isFetchingRef, lastExcl>>
           ELSE /\ FreeSlots # {}
                /\ calls' = [calls EXCEPT ![FirstFree] = Requested(level, TRUE)]
                /\ isFetchingRef' = TRUE
                /\ lastExcl' = usedWordsRef

loadNextQuestionNoRefill ==
  /\ IF bufferRef # <<>>
       THEN currentQ' = Head(bufferRef) /\ selected' = NoSel
       ELSE currentQ' = Null /\ UNCHANGED selected
  /\ bufferRef' = IF bufferRef = <<>> THEN <<>> ELSE Tail(bufferRef)
  /\ UNCHANGED <<calls, isFetchingRef, lastExcl>>

loadNextQuestionKeeps ==
  /\ IF bufferRef # <<>>
       THEN currentQ' = Head(bufferRef) /\ selected' = NoSel
       ELSE currentQ' = Null /\ UNCHANGED selected
  /\ UNCHANGED bufferRef
  /\ IF Blocked(bufferRef, isFetchingRef)
       THEN UNCHANGED <<calls, isFetchingRef, lastExcl>>
       ELSE /\ FreeSlots # {}
            /\ calls' = [calls EXCEPT ![FirstFree] = Requested(level, TRUE)]
            /\ isFetchingRef' = TRUE
            /\ lastExcl' = usedWordsRef

\* Lines 146-158: shift the buffer, show the item or the loader, refill
loadNextQuestion ==
  LET rest == IF bufferRef = <<>> THEN <<>> ELSE Tail(bufferRef)
  IN  /\ IF bufferRef # <<>>
           THEN currentQ' = Head(bufferRef) /\ selected' = NoSel
           ELSE currentQ' = Null /\ UNCHANGED selected
      /\ bufferRef' = rest
      /\ IF Blocked(rest, isFetchingRef)
           THEN UNCHANGED <<calls, isFetchingRef, lastExcl>>
           ELSE /\ FreeSlots # {}
                /\ calls' = [calls EXCEPT ![FirstFree] = Requested(level, TRUE)]
                /\ isFetchingRef' = TRUE
                /\ lastExcl' = usedWordsRef

\* The second 500 ms timer with loadNextQuestion() in place of onComplete(true)
EndlessTimer ==
  /\ timers.done > 0
  /\ timers' = [timers EXCEPT !.done = @ - 1]
  /\ loadNextQuestion
  /\ UNCHANGED <<level, error, usedWordsRef, activeLevelRef, nextId,
                 correctCount, completeCount>>
  /\ UNCHANGED <<prefetchVars, loaderVars, appVars>>

NextEndless ==
  \/ \E s \in Slots, w \in 0..MaxWords : GenResolve(s, w, MaxEndless)
  \/ \E s \in Slots, o \in Options, m \in {"loaded", "failed"} : MediaSettle(s, o, m)
  \/ \E s \in Slots : GateResolve(s)
  \/ \E s \in Slots : GenFail(s)
  \/ \E s \in Slots : TimerFire(s)
  \/ handleRetry
  \/ \E i \in Options : handleSelect(i)
  \/ UnlockTimer
  \/ PraiseTimer
  \/ EndlessTimer

SpecEndless == Init /\ [][NextEndless]_vars

\* Endless mode with a Content Source that always succeeds and images that
\* always load, a player who gives at most MaxPops correct answers, and a
\* scheduler that lets every pending promise and timer run.
TopUpCap == BUFFER_TARGET + 1 + MaxPops

NextTopUp ==
  \/ \E s \in Slots : GenResolve(s, 1, TopUpCap)
  \/ \E s \in Slots, o \in Options : MediaSettle(s, o, "loaded")
  \/ \E s \in Slots : GateResolve(s)
  \/ \E s \in Slots : TimerFire(s)
  \/ \E i \in Options : correctCount < MaxPops /\ handleSelect(i)
  \/ UnlockTimer
  \/ PraiseTimer
  \/ EndlessTimer

SpecTopUp ==
  /\ Init
  /\ [][NextTopUp]_vars
  /\ WF_vars(\E s \in Slots : GenResolve(s, 1, TopUpCap))
  /\ WF_vars(\E s \in Slots, o \in Options : MediaSettle(s, o, "loaded"))
  /\ WF_vars(\E s \in Slots : GateResolve(s))
  /\ WF_vars(\E s \in Slots : TimerFire(s))
  /\ WF_vars(UnlockTimer)
  /\ WF_vars(PraiseTimer)
  /\ WF_vars(EndlessTimer)

\* ------------------------------------------- the single-slot prefetch variant
\* Lines 283-531. A question is represented by the level argument of the
\* generateLetterQuestion call that produced it.
Sent(f, c, l) == [f EXCEPT ![c][l] = @ + 1]
Answered(f, c, l) == [f EXCEPT ![c][l] = @ - 1]

\* The effect of lines 334-339, deps [data, loadingData], after a handler
\* that ends with loadingData false: when one of the deps changed and there
\* is a question (d), it calls prefetchNextLevel of the current render.
\* f is fetches before the effect.
PrefetchEffect(f, changed, d) ==
  IF changed /\ d # 0
    THEN /\ f["prefetchNextLevel"][level] < MaxFetch
         /\ fetches' = Sent(f, "prefetchNextLevel", level)
    ELSE fetches' = f

\* After mount: the level effect has called loadLevel([]), which found the
\* slot empty and awaits generateLetterQuestion (lines 324-331, 382-402)
PrefetchInit ==
  /\ level \in Levels
  /\ error = FALSE
  /\ data = 0
  /\ loadingData = TRUE
  /\ imagesLoadedCount = 0
  /\ nextLevelDataRef = 0
  /\ fetches = Sent(NoFetches, "loadLevel", level)
  /\ currentQ = Null
  /\ selected = NoSel
  /\ bufferRef = <<>>
  /\ usedWordsRef = {}
  /\ isFetchingRef = FALSE
  /\ activeLevelRef = 0
  /\ calls = [s \in Slots |-> Idle]
  /\ timers = [unlock |-> 0, praise |-> 0, done |-> 0]
  /\ nextId = 1
  /\ correctCount = 0
  /\ completeCount = 0
  /\ lastExcl = {}
  /\ LoaderUnused
  /\ AppUnused

\* The parent renders level l: the effect of lines 324-331 clears the slot
\* and calls loadLevel([]), which fetches (lines 382-402)
levelEffect(l) ==
  /\ l # level
  /\ fetches["loadLevel"][l] < MaxFetch
  /\ level' = l
  /\ nextLevelDataRef' = 0
  /\ loadingData' = TRUE
  /\ error' = FALSE
  /\ imagesLoadedCount' = 0
  /\ fetches' = Sent(fetches, "loadLevel", l)
  /\ UNCHANGED data
  /\ UNCHANGED <<bufferVars, loaderVars, appVars>>

\* loadLevel's generateLetterQuestion(l, ...) resolves (lines 402-413, 417-419)
loadLevelResolve(l) ==
  /\ fetches["loadLevel"][l] > 0
  /\ data' = l
  /\ loadingData' = FALSE
  /\ PrefetchEffect(Answered(fetches, "loadLevel", l), TRUE, l)
  /\ UNCHANGED <<level, error, imagesLoadedCount, nextLevelDataRef>>
  /\ UNCHANGED <<bufferVars, loaderVars, appVars>>

\* loadLevel's generateLetterQuestion(l, ...) rejects (lines 414-419)
loadLevelReject(l) ==
  /\ fetches["loadLevel"][l] > 0
  /\ error' = TRUE
  /\ loadingData' = FALSE
  /\ PrefetchEffect(Answered(fetches, "loadLevel", l), loadingData, data)
  /\ UNCHANGED <<level, data, imagesLoadedCount, nextLevelDataRef>>
  /\ UNCHANGED <<bufferVars, loaderVars, appVars>>

\* prefetchNextLevel's generateLetterQuestion(l, ...) resolves (lines 366-376)
prefetchNextLevelResolve(l) ==
  /\ fetches["prefetchNextLevel"][l] > 0
  /\ fetches' = Answered(fetches, "prefetchNextLevel", l)
  /\ nextLevelDataRef' = l
  /\ UNCHANGED <<level, error, data, loadingData, imagesLoadedCount>>
  /\ UNCHANGED <<bufferVars, loaderVars, appVars>>

\* prefetchNextLevel's generateLetterQuestion(l, ...) rejects (lines 377-379)
prefetchNextLevelReject(l) ==
  /\ fetches["prefetchNextLevel"][l] > 0
  /\ fetches' = Answered(fetches, "prefetchNextLevel", l)
  /\ UNCHANGED <<level, error, data, loadingData, imagesLoadedCount,
                 nextLevelDataRef>>
  /\ UNCHANGED <<bufferVars, loaderVars, appVars>>

\* An image of the displayed question loads or fails (lines 422-427, 518-519)
handleImageLoad ==
  /\ data # 0
  /\ ~error
  /\ imagesLoadedCount < NumOptions
  /\ imagesLoadedCount' = imagesLoadedCount + 1
  /\ UNCHANGED <<level, error, data, loadingData, nextLevelDataRef, fetches>>
  /\ UNCHANGED <<bufferVars, loaderVars, appVars>>

\* The 10 s safety timer of lines 342-351
safetyTimeout ==
  /\ ~loadingData
  /\ data # 0
  /\ ~error
  /\ imagesLoadedCount < NumOptions
  /\ error' = TRUE
  /\ UNCHANGED <<level, data, loadingData, imagesLoadedCount, nextLevelDataRef,
                 fetches>>
  /\ UNCHANGED <<bufferVars, loaderVars, appVars>>

\* The retry button calls loadLevel() (lines 451-453, 382-420): a filled slot
\* is consumed without any await, an empty one makes it fetch
retryLoadLevel ==
  /\ error
  /\ error' = FALSE
  /\ imagesLoadedCount' = 0
  /\ IF nextLevelDataRef # 0
       THEN /\ data' = nextLevelDataRef
            /\ nextLevelDataRef' = 0
            /\ loadingData' = FALSE
            /\ PrefetchEffect(fetches, TRUE, nextLevelDataRef)
       ELSE /\ fetches["loadLevel"][level] < MaxFetch
            /\ loadingData' = TRUE
            /\ fetches' = Sent(fetches, "loadLevel", level)
            /\ UNCHANGED <<data, nextLevelDataRef>>
  /\ UNCHANGED level
  /\ UNCHANGED <<bufferVars, loaderVars, appVars>>

NextPrefetch ==
  \/ \E l \in Levels : levelEffect(l)
  \/ \E l \in Levels : loadLevelResolve(l)
  \/ \E l \in Levels : loadLevelReject(l)
  \/ \E l \in Levels : prefetchNextLevelResolve(l)
  \/ \E l \in Levels : prefetchNextLevelReject(l)
  \/ handleImageLoad
  \/ safetyTimeout
  \/ retryLoadLevel

SpecPrefetch == PrefetchInit /\ [][NextPrefetch]_vars

\* ------------------------------------------------ GameNikkud, GameSentences
\* src/unnamed/part_001:17-112 and src/screens/GameSentences.tsx:18-110 are
\* the same loader. A question is represented by the level argument of the
\* generate...Question call that produced it; 0 is null. The pending calls of
\* loadLevel are fetches["loadLevel"]. The parent is any component that
\* honours Props.
bufferRest == <<currentQ, selected, bufferRef, usedWordsRef, isFetchingRef,
                activeLevelRef, calls, nextId, correctCount, completeCount,
                lastExcl>>

\* Line 23: const isReady = !loadingData && data && imageReady
isReady == ~loadingData /\ data # 0 /\ imageReady

\* After mount: the level effect has called loadLevel, which awaits the
\* question (lines 25-28, 45-50)
NikkudInit ==
  /\ level \in Levels
  /\ error = FALSE
  /\ data = 0
  /\ loadingData = TRUE
  /\ imageReady = FALSE
  /\ completed = FALSE
  /\ imgPending = FALSE
  /\ imagesLoadedCount = 0
  /\ nextLevelDataRef = 0
  /\ fetches = Sent(NoFetches, "loadLevel", level)
  /\ currentQ = Null
  /\ selected = NoSel
  /\ bufferRef = <<>>
  /\ usedWordsRef = {}
  /\ isFetchingRef = FALSE
  /\ activeLevelRef = 0
  /\ calls = [s \in Slots |-> Idle]
  /\ timers = [unlock |-> 0, praise |-> 0, done |-> 0]
  /\ nextId = 1
  /\ correctCount = 0
  /\ completeCount = 0
  /\ lastExcl = {}
  /\ AppUnused

\* The parent renders level l: the effect of lines 25-28 calls loadLevel,
\* which runs up to its await (lines 45-50)
NikkudLevelEffect(l) ==
  /\ l # level
  /\ fetches["loadLevel"][l] < MaxFetch
  /\ level' = l
  /\ loadingData' = TRUE
  /\ imageReady' = FALSE
  /\ completed' = FALSE
  /\ fetches' = Sent(fetches, "loadLevel", l)
  /\ UNCHANGED <<error, data, imgPending, imagesLoadedCount, nextLevelDataRef,
                 timers>>
  /\ UNCHANGED <<bufferRest, appVars>>

\* The generate...Question(l) of a loadLevel resolves: setData(q), then the
\* finally block (lines 50-51, 54-56). The <img> gets the src of q.
NikkudLoadResolve(l) ==
  /\ fetches["loadLevel"][l] > 0
  /\ fetches' = Answered(fetches, "loadLevel", l)
  /\ data' = l
  /\ loadingData' = FALSE
  /\ imgPending' = TRUE
  /\ UNCHANGED <<level, error, imageReady, completed, imagesLoadedCount,
                 nextLevelDataRef, timers>>
  /\ UNCHANGED <<bufferRest, appVars>>

\* The generate...Question(l) of a loadLevel rejects: the catch block logs,
\* then the finally block (lines 52-56)
NikkudLoadReject(l) ==
  /\ fetches["loadLevel"][l] > 0
  /\ fetches' = Answered(fetches, "loadLevel", l)
  /\ loadingData' = FALSE
  /\ UNCHANGED <<level, error, data, imageReady, completed, imgPending,
                 imagesLoadedCount, nextLevelDataRef, timers>>
  /\ UNCHANGED <<bufferRest, appVars>>

\* The <img> of the question fires load or error (lines 100-101); it is
\* rendered whenever data is not null (line 91)
NikkudImageEvent ==
  /\ data # 0
  /\ imgPending
  /\ imgPending' = FALSE
  /\ imageReady' = TRUE
  /\ UNCHANGED <<level, error, data, loadingData, completed, imagesLoadedCount,
                 nextLevelDataRef, fetches, timers>>
  /\ UNCHANGED <<bufferRest, appVars>>

\* The 5 s timer of the effect of lines 31-36
NikkudSafetyTimeoutNever ==
  /\ FALSE
  /\ UNCHANGED vars

NikkudSafetyTimeout ==
  /\ ~loadingData
  /\ data # 0
  /\ ~isReady
  /\ imageReady' = TRUE
  /\ UNCHANGED <<level, error, data, loadingData, completed, imgPending,
                 imagesLoadedCount, nextLevelDataRef, fetches, timers>>
  /\ UNCHANGED <<bufferRest, appVars>>

\* A click on an option (lines 59-75); the options are under the overlay
\* until isReady (lines 83, 92). A wrong answer changes no state.
NikkudHandleSelect(isCorrect) ==
  /\ isReady
  /\ IF completed \/ ~isCorrect
       THEN UNCHANGED <<completed, timers>>
       ELSE /\ TimerCount < MaxTimers
            /\ completed' = TRUE
            /\ timers' = [timers EXCEPT !.praise = @ + 1]
  /\ UNCHANGED <<level, error, data, loadingData, imageReady, imgPending,
                 imagesLoadedCount, nextLevelDataRef, fetches>>
  /\ UNCHANGED <<bufferRest, appVars>>

\* The 500 ms timer of a correct answer arms the second one (lines 67-70)
NikkudPraiseTimer ==
  /\ timers.praise > 0
  /\ timers' = [timers EXCEPT !.praise = @ - 1, !.done = @ + 1]
  /\ UNCHANGED <<level, error, prefetchVars, loaderVars, bufferRest, appVars>>

\* The second timer calls the parent's onComplete(true) (line 69)
NikkudCompleteTimer ==
  /\ timers.done > 0
  /\ timers' = [timers EXCEPT !.done = @ - 1]
  /\ UNCHANGED <<level, error, prefetchVars, loaderVars, bufferRest, appVars>>

NextNikkud ==
  \/ \E l \in Levels : NikkudLevelEffect(l)
  \/ \E l \in Levels : NikkudLoadResolve(l)
  \/ \E l \in Levels : NikkudLoadReject(l)
  \/ NikkudImageEvent
  \/ NikkudSafetyTimeout
  \/ \E c \in BOOLEAN : NikkudHandleSelect(c)
  \/ NikkudPraiseTimer
  \/ NikkudCompleteTimer

\* Every pending call is answered, the safety timer fires when it stays
\* armed, and the parent eventually stops changing the level.
SpecNikkud ==
  /\ NikkudInit
  /\ [][NextNikkud]_vars
  /\ WF_vars(\E l \in Levels : NikkudLoadResolve(l) \/ NikkudLoadReject(l))
  /\ WF_vars(NikkudSafetyTimeout)
  /\ <>[][level' = level]_vars

\* ---------------------------------------------------------------------- App
\* src/services/geminiService.ts:142-237. A mounted game keeps, in the
\* timers of its handleSelect, the handleGameComplete of the render that
\* passed it as onComplete: a closure over that render's activeGame and
\* activeLevel. The timers are not cleared when the game unmounts.
gameVars == <<level, error, bufferVars, prefetchVars, loaderVars>>

\* GAME_CONFIG (src/unnamed/part_000:11-15): the levels the map offers
GameLevels(g) == 1..(IF g = "NIKKUD" THEN maxLevelsNikkud ELSE maxLevels)
Closures == {[game |-> g, level |-> l] : g \in Games, l \in 1..maxLevelsNikkud}

\* App on the map with the initial progress; no game is mounted
AppInit ==
  /\ AppUnused
  /\ level = 1
  /\ error = FALSE
  /\ currentQ = Null
  /\ selected = NoSel
  /\ bufferRef = <<>>
  /\ usedWordsRef = {}
  /\ isFetchingRef = FALSE
  /\ activeLevelRef = 0
  /\ calls = [s \in Slots |-> Idle]
  /\ timers = [unlock |-> 0, praise |-> 0, done |-> 0]
  /\ nextId = 1
  /\ correctCount = 0
  /\ completeCount = 0
  /\ lastExcl = {}
  /\ PrefetchUnused
  /\ LoaderUnused

\* The updater passed to setProgress (lines 166-187)
nextProgressJumps(prev, game, lvl) ==
  [coins |-> prev.coins + CoinsPerWin,
   badges |-> prev.badges,
   unlockedLevels |-> [prev.unlockedLevels EXCEPT ![game] = lvl + 1]]

nextProgress(prev, game, lvl) ==
  LET currentMaxLevel == prev.unlockedLevels[game]
      nextLevel == IF lvl = currentMaxLevel THEN currentMaxLevel + 1
                                            ELSE currentMaxLevel
      newBadges == prev.badges
                     \cup (IF lvl = 1 THEN {<<game, "beginner">>} ELSE {})
                     \cup (IF lvl = 3 THEN {<<game, "champion">>} ELSE {})
  IN  [coins |-> prev.coins + CoinsPerWin,
       badges |-> newBadges,
       unlockedLevels |-> [prev.unlockedLevels EXCEPT ![game] = nextLevel]]

\* Lines 156-161, called by the level popup of the map (part_000:117-125)
handleGameSelect(type, lvl) ==
  /\ screen = "MAP"
  /\ lvl \in GameLevels(type)
  /\ activeGame' = type
  /\ activeLevel' = lvl
  /\ screen' = "GAME"
  /\ UNCHANGED <<progress, armed>>
  /\ UNCHANGED gameVars

\* The mounted game accepts a correct answer and arms the timer that will
\* call onComplete (GameLetters.tsx:171-188, part_001:67-69)
GameArms ==
  /\ screen = "GAME"
  /\ activeGame # NoGame
  /\ Cardinality(armed) < MaxArmed
  /\ [game |-> activeGame, level |-> activeLevel] \notin armed
  /\ armed' = armed \cup {[game |-> activeGame, level |-> activeLevel]}
  /\ UNCHANGED <<screen, activeGame, activeLevel, progress>>
  /\ UNCHANGED gameVars

\* Lines 163-191, run from the closure c with argument success
handleGameComplete(c, success) ==
  /\ c \in armed
  /\ armed' = armed \ {c}
  /\ IF success /\ c.game # NoGame
       THEN /\ progress.coins < CoinsPerWin * MaxWins
            /\ progress' = nextProgress(progress, c.game, c.level)
       ELSE UNCHANGED progress
  /\ screen' = "MAP"
  /\ activeGame' = NoGame
  /\ UNCHANGED activeLevel
  /\ UNCHANGED gameVars

\* The home button of the top bar (lines 224-227)
onHome ==
  /\ screen' = "MAP"
  /\ activeGame' = NoGame
  /\ UNCHANGED <<activeLevel, progress, armed>>
  /\ UNCHANGED gameVars

\* The achievements button of the map and the close button (lines 195, 215)
onShowAchievements ==
  /\ screen = "MAP"
  /\ screen' = "ACHIEVEMENTS"
  /\ UNCHANGED <<activeGame, activeLevel, progress, armed>>
  /\ UNCHANGED gameVars

onClose ==
  /\ screen = "ACHIEVEMENTS"
  /\ screen' = "MAP"
  /\ UNCHANGED <<activeGame, activeLevel, progress, armed>>
  /\ UNCHANGED gameVars

NextApp ==
  \/ \E g \in Games, l \in 1..maxLevelsNikkud : handleGameSelect(g, l)
  \/ GameArms
  \/ \E c \in Closures, success \in BOOLEAN : handleGameComplete(c, success)
  \/ onHome
  \/ onShowAchievements
  \/ onClose

SpecApp == AppInit /\ [][NextApp]_vars

\* ------------------------------------------------------------ properties
Outstanding == {s \in Slots : calls[s].pc = "gen"}
Ready(q) == \A o \in Options : q.media[o] # "pending"
Degraded(q) == \E o \in Options : q.media[o] = "failed"
Queued == {bufferRef[i] : i \in 1..Len(bufferRef)}
Held == Queued \cup (IF currentQ = Null THEN {} ELSE {currentQ})

\* A step of the reset effect, of the retry button, and one that sends a request
StartStep == level' # level
RetryStep == error /\ ~error' /\ level' = level
IssuesCall == \E s \in Slots : calls'[s].pc = "gen" /\ calls[s].pc # "gen"
\* A step in which the invocation of slot s, whose request is stale, resumes
StaleResumes(s) ==
  /\ calls[s].pc \in {"gen", "img"}
  /\ ~calls[s].live
  /\ calls'[s] # calls[s]
\* A step that registers a wrong answer
WrongAnswer == selected = NoSel /\ selected' # NoSel /\ ~IsCorrect(currentQ, selected')

\* C1: at most one Content Source request is outstanding at any time.
C1_SingleFlight == Cardinality(Outstanding) <= 1

\* C2: the Ready Queue never holds more than BUFFER_TARGET items.
C2_BoundedBuffer == Len(bufferRef) <= BUFFER_TARGET

\* C3: the result of a request issued before the latest reset never reaches
\* the queue or the screen of the new session, and the resumption of such a
\* request never changes the new session's exclusion set.
C3_StalenessSafety ==
  [][/\ \A q \in Held' : q.live
     /\ \A s \in Slots : StaleResumes(s) => usedWordsRef' = usedWordsRef]_vars

\* C4: in a session onComplete(true) is delivered at most once, and only once
\* the session has had its TargetCorrect-th correct answer.
C4_CompletionExactness ==
  /\ completeCount <= 1
  /\ completeCount = 1 => correctCount >= TargetCorrect

\* C5: a wrong answer leaves the queue, the displayed question and the
\* correct-count as they are, and arms the timer that lets the user answer again.
C5_WrongAnswerNoMutation ==
  [][WrongAnswer =>
       /\ bufferRef' = bufferRef
       /\ currentQ' = currentQ
       /\ correctCount' = correctCount
       /\ timers'.unlock = timers.unlock + 1]_vars

C5_Witness ==
  /\ selected # NoSel
  /\ ~IsCorrect(currentQ, selected)
  /\ timers.unlock = 1
  /\ Len(bufferRef) >= 1

\* C6: between two resets the exclusion set never loses a key and the exclusion
\* list sent with a request is never shorter than the one sent before it.
C6_MonotonicExclusion ==
  [][~StartStep =>
       /\ usedWordsRef \subseteq usedWordsRef'
       /\ Cardinality(lastExcl) <= Cardinality(lastExcl')]_vars

C6_Witness == lastExcl # {} /\ error

\* C7: when every request fails, the error screen always comes up again,
\* with nothing queued and nothing displayed.
C7_ErrorSurfacing ==
  (~error) ~> (error /\ bufferRef = <<>> /\ currentQ = Null)

C7_Witness == error /\ bufferRef = <<>> /\ currentQ = Null /\ Outstanding = {}

\* C8: when every request fails, a request is sent only by a retry or a
\* reset, and every retry sends one.
C8_RetryIssuesExactlyOne ==
  [][/\ IssuesCall => (RetryStep \/ StartStep)
     /\ RetryStep => IssuesCall]_vars

\* C9: every question in the queue or on screen has all its images settled.
C9_MediaGate == \A q \in Held : Ready(q)

C9_Witness ==
  /\ currentQ # Null
  /\ \E s \in Slots :
       /\ calls[s].pc = "img"
       /\ \E o \in Options : calls[s].q.media[o] # "pending"
       /\ ~Ready(calls[s].q)

\* C10: a failed image load never raises the error screen and never holds the
\* question back: once all its images are settled the gate can resolve, and
\* when it does the question is in the queue or on screen.
C10_MediaFailureSilent ==
  /\ [](\A s \in Slots :
          (calls[s].pc = "img" /\ Ready(calls[s].q)) => ENABLED GateResolve(s))
  /\ [][\A s \in Slots :
          (/\ calls[s].pc = "img"
           /\ Degraded(calls'[s].q) \/ Degraded(calls[s].q)
           /\ calls'[s] # calls[s]
           /\ ~StartStep)
          => /\ error' = error
             /\ calls'[s].pc # "img" =>
                  \E q \in Held' : q.id = calls[s].q.id /\ Degraded(q)]_vars

C10_Witness == ~error /\ \E q \in Held : Degraded(q)

\* The Nth correct answer has been given and onComplete(true) delivered
Complete == correctCount >= TargetCorrect /\ completeCount >= 1
\* Nothing to show: no question on screen and none queued
NothingHeld == bufferRef = <<>> /\ currentQ = Null
\* The invocations that enter generateLetterQuestion in this step
Issued == {s \in Slots : calls'[s].pc = "gen" /\ calls[s].pc # "gen"}
\* The invocation of slot s, whose request is stale, leaves its suspension point
StaleReturns(s) ==
  /\ calls[s].pc \in {"gen", "img"}
  /\ ~calls[s].live
  /\ calls'[s].pc # calls[s].pc

\* C11: once the session is complete no request is started and nothing changes
\* the queue, the displayed question or the exclusion set, until the next reset.
C11_CompleteStopsLoop ==
  [][(Complete /\ ~StartStep) =>
       /\ ~IssuesCall
       /\ UNCHANGED <<bufferRef, currentQ, usedWordsRef>>]_vars

\* C12: a failed request of the active session clears the fetch flag; it
\* raises the error screen exactly when nothing is queued and nothing is
\* displayed, and otherwise changes nothing the consumer sees.
C12_FailureHandling ==
  [][\A s \in Slots : (calls[s].live /\ GenFail(s)) =>
       /\ ~isFetchingRef'
       /\ error' <=> (error \/ NothingHeld)
       /\ ~NothingHeld => UNCHANGED <<error, currentQ, bufferRef, selected>>]_vars

\* The queue after the step is the old queue, less its first k items, plus
\* whatever was appended behind it
KeepsOrder(k) ==
  LET n == Len(bufferRef) - k
  IN  /\ n >= 0
      /\ Len(bufferRef') >= n
      /\ \A i \in 1..n : bufferRef'[i] = bufferRef[k + i]
\* The question put on screen in this step was accepted in this very step
ServedOnAccept ==
  \E s \in Slots :
    /\ calls[s].pc = "img" /\ calls'[s].pc # "img"
    /\ currentQ'.id = calls[s].q.id

C14_StartResets ==
  [][StartStep =>
       /\ usedWordsRef' = {}
       /\ bufferRef' = <<>>
       /\ currentQ' = Null
       /\ ~error'
       /\ activeLevelRef' = level'
       /\ Cardinality(Issued) = 1
       /\ \A s \in Issued : calls'[s].lvl = level' /\ calls'[s].live
       /\ lastExcl' = {}]_vars

C14_Witness ==
  /\ NothingHeld /\ ~error /\ usedWordsRef = {}
  /\ \E s, t \in Slots :
       /\ calls[s].pc \in {"gen", "img"} /\ ~calls[s].live
       /\ calls[t].pc = "gen" /\ calls[t].live /\ calls[t].lvl = level

C16_PendingHasFetch ==
  (currentQ = Null /\ ~error) =>
    (bufferRef = <<>> /\ \E s \in Slots : calls[s].pc # "idle")

C18_LivenessBySession ==
  [][\A s \in Slots :
       (/\ calls[s].pc = "gen"
        /\ ~calls[s].live
        /\ calls[s].lvl = activeLevelRef
        /\ calls'[s] # calls[s])
       => (calls'[s].pc # "img" /\ usedWordsRef' = usedWordsRef)]_vars

\* C19: when a stale request resumes, queue, exclusion set, fetch flag,
\* displayed question and error screen stay as they are and the invocation ends.
C19_StaleDiscardNoEffect ==
  [][\A s \in Slots : StaleReturns(s) =>
       /\ UNCHANGED <<bufferRef, usedWordsRef, isFetchingRef, currentQ, error>>
       /\ calls'[s].pc = "idle"]_vars

\* C20: the fetch flag is set exactly while a request of the active session
\* (its Content Source call or its image preload) is outstanding.
C20_FetchFlagAccurate ==
  isFetchingRef <=> \E s \in Slots : calls[s].pc \in {"gen", "img"} /\ calls[s].live

\* The session is not active: the error screen is up, or it is complete
NotActive == error \/ Complete
\* The guard of line 77 holds in the current state
GuardHolds == Len(bufferRef) >= BUFFER_TARGET \/ isFetchingRef
\* Correct words of the questions of the active session that were generated
\* and are in the image preload, queued or on screen
GateWords == {calls[s].q.word : s \in {t \in Slots : calls[t].pc = "img" /\ calls[t].live}}
HeldWords == {q.word : q \in {h \in Held : h.live}}
SessionWords == (GateWords \cup HeldWords) \ {NoWord}

\* C21: while the error screen is up or the session is complete, no request
\* is sent, except by the retry or the reset that makes the session active.
C21_NoGenerationWhileNotActive ==
  [][(NotActive /\ ~handleRetry /\ ~StartStep) => ~IssuesCall]_vars

\* C22: a fillBuffer call made while the flag is set or the queue holds
\* BUFFER_TARGET items (by a refill timer or by the retry button) sends no
\* request and leaves queue, exclusion set, flag and displayed question as
\* they are; the timer call leaves the error screen as it is too.
C22_IdempotentGuard ==
  [][/\ \A s \in Slots :
          (GuardHolds /\ calls[s].pc = "timer" /\ calls'[s] # calls[s]) =>
            /\ ~IssuesCall
            /\ UNCHANGED <<bufferRef, usedWordsRef, isFetchingRef, currentQ, error>>
     /\ (GuardHolds /\ handleRetry) =>
            /\ ~IssuesCall
            /\ UNCHANGED <<bufferRef, usedWordsRef, isFetchingRef, currentQ>>]_vars

\* A refill timer is armed and will fire on a full queue
C22_Witness ==
  /\ \E s \in Slots : calls[s].pc = "timer"
  /\ Len(bufferRef) >= BUFFER_TARGET
  /\ ~isFetchingRef

\* C23: the exclusion list of every request contains the correct word of every
\* question of the active session generated before it, displayed or not.
C23_SpeculativeExclusion ==
  [][IssuesCall => SessionWords' \subseteq lastExcl']_vars

\* A request is pending whose list has the word of a question still preloading
C23_Witness ==
  \E s, t \in Slots :
    /\ calls[s].pc = "img" /\ calls[s].live /\ calls[s].q.word # NoWord
    /\ calls[t].pc = "gen" /\ calls[t].live
    /\ calls[s].q.word \in lastExcl

\* C26: when the preload of a question of the active session finishes and no
\* question is on screen, that question is on screen after the step and not
\* in the queue; when one is on screen it stays and the new one is appended.
C26_ServeImmediately ==
  [][\A s \in Slots : (GateResolve(s) /\ calls[s].live) =>
       IF currentQ = Null
         THEN /\ currentQ'.id = calls[s].q.id
              /\ \A i \in 1..Len(bufferRef') : bufferRef'[i].id # calls[s].q.id
         ELSE /\ currentQ' = currentQ
              /\ Len(bufferRef') = Len(bufferRef) + 1
              /\ bufferRef'[Len(bufferRef')].id = calls[s].q.id
              /\ \A i \in 1..Len(bufferRef) : bufferRef'[i] = bufferRef[i]]_vars

\* The first question was served on arrival, the second was queued behind it
C26_Witness ==
  /\ currentQ # Null /\ currentQ.live
  /\ bufferRef # <<>> /\ bufferRef[1].live
  /\ currentQ.id < bufferRef[1].id

\* C29: the question a session displays gets at most one correct selection
\* registered, so that at most one onComplete(true) is armed for it.
C29_CompleteOncePerQuestion == correctCount <= 1

\* The queue is full, a question is on screen and no invocation is left
ToppedUp ==
  /\ Len(bufferRef) = BUFFER_TARGET
  /\ currentQ # Null
  /\ \A s \in Slots : calls[s].pc = "idle"
\* Every generated question has passed the image preload
NoneInGate == \A s \in Slots : calls[s].pc # "img"

C25_InitialFill ==
  (correctCount = 0 /\ NoneInGate /\ nextId = BUFFER_TARGET + 1) =>
    (Len(bufferRef) = BUFFER_TARGET /\ currentQ.id = 1)

\* C25 amended: with no answer given, once n questions have been generated
\* and passed the preload, the first is on screen and the other n - 1 are
\* queued; the queue never exceeds BUFFER_TARGET, which it holds after
\* BUFFER_TARGET + 1 generations.
C25_InitialFillAmended ==
  (correctCount = 0 /\ NoneInGate /\ nextId > 1) =>
    /\ currentQ.id = 1
    /\ Len(bufferRef) = nextId - 2
    /\ Len(bufferRef) <= BUFFER_TARGET

C25_Witness ==
  /\ correctCount = 0 /\ NoneInGate /\ selected = NoSel
  /\ nextId = BUFFER_TARGET + 2
  /\ Len(bufferRef) = BUFFER_TARGET /\ currentQ.id = 1

\* The ids of the questions in the queue, and of those queued or on screen
QueuedIds == {bufferRef[i].id : i \in 1..Len(bufferRef)}
HeldIds == QueuedIds \cup (IF currentQ = Null THEN {} ELSE {currentQ.id})

C30_PrefetchSlotFresh ==
  [][(retryLoadLevel /\ nextLevelDataRef # 0) =>
       (nextLevelDataRef = level /\ data' = level)]_vars

\* C31: in GameNikkud and GameSentences the question displayed as ready is
\* the response to the most recent loadLevel request, the one made for the
\* current level: no response to an earlier level's request and no failed
\* load leaves another level's question displayed as ready.
C31_ReadyIsLatest == isReady => data = level

\* C32: in GameNikkud and GameSentences, once question data is present the
\* overlay is eventually lifted (isReady becomes true), even if the image
\* fires neither load nor error.
C32_OverlayLifted == (data # 0) ~> isReady

C32_Witness == data # 0 /\ isReady /\ imgPending

\* C33: in App.handleGameComplete a game's unlocked level never decreases; it
\* increases, and then by exactly 1, only in a successful completion played
\* at the level that is the game's highest unlocked one; each successful
\* completion adds exactly 10 coins; an unsuccessful completion leaves
\* progress unchanged.
C33_ProgressOnCompletion ==
  [][/\ \A g \in Games :
          /\ progress'.unlockedLevels[g] >= progress.unlockedLevels[g]
          /\ progress'.unlockedLevels[g] # progress.unlockedLevels[g] =>
               /\ progress'.unlockedLevels[g] = progress.unlockedLevels[g] + 1
               /\ \E c \in armed :
                    /\ c.game = g
                    /\ c.level = progress.unlockedLevels[g]
                    /\ handleGameComplete(c, TRUE)
     /\ \A c \in armed :
          /\ handleGameComplete(c, TRUE) =>
               progress'.coins = progress.coins + 10
          /\ handleGameComplete(c, FALSE) => progress' = progress
    ]_vars

C33_Witness ==
  /\ progress.coins = 20
  /\ progress.unlockedLevels = [g \in Games |-> IF g = "LETTERS" THEN 2 ELSE 1]

====
